---- MODULE Spec2Model ----
(***************************************************************************)
(* The particle / flocking core of the-face (Particle and ParticleSystem). *)
(*                                                                         *)
(* Numbers are fixed-point: the value 1.0 of the program is the integer    *)
(* Unit, so maxForce = 0.1 is 10 and maxSpeed = 4 is 400.  A vector is a   *)
(* record [x, y].  Quotients are rounded toward zero, and a vector is      *)
(* divided by its magnitude rounded up, so rounding never lengthens a      *)
(* vector; distances that are compared with a threshold are rounded down,  *)
(* which keeps every strict comparison with a whole threshold exact.       *)
(*                                                                         *)
(* Spec is the particle system on its own, update() taken one loop         *)
(* iteration at a time.  SketchSpec is the sketch around it: draw(),       *)
(* setupSketch(), resetSketch() and the promises and callbacks of the      *)
(* tracker's setup(), with update() taken as one step.                     *)
(* FrameSpec is one tracked frame with the tracker storing detections.      *)
(* TrackerSpec is one FaceTracker: setup(), its callback, the detection     *)
(* loop and dispose(); TrackerLiveSpec adds the event loop's fairness.      *)
(* AppSpec is the page: app.js's handlers and the faceTrackingError events. *)
(***************************************************************************)
EXTENDS Integers, Sequences, FiniteSets, TLC

VARIABLES
    particles,    \* ParticleSystem.particles: sequence of Particle records
    attractors,   \* ParticleSystem.attractors: sequence of points
    pc,           \* "idle": between calls; "loop": inside update()'s for loop
    idx,          \* the loop variable i of update()'s for loop
    ticks,        \* number of update() calls started
    nextId,       \* identity given to the next constructed Particle
    processed,    \* what update() did to each particle in this call, in order
    prevAttracted, \* ids whose isAttracted was true when this update() began
    started,      \* the population this update()'s for loop started with
    graveyard,    \* ids of the particles update() has removed so far
    history,      \* per particle id: its decay, the update() calls that
                  \* processed it, and those among them that attracted it
                  \* (-1 once some calls did and some did not)
    isFaceTrackingAvailable, \* sketch.js: the global flag
    faceTracker,  \* sketch.js: the global tracker, an index into trackers
    trackers,     \* every FaceTracker constructed so far
    ui,           \* app.js: the section shown, "intro" or "experience"
    frames,       \* number of draw() calls
    attractorsFrom, \* who built the list in attractors: "none", "tracker", "fallback"
    wentUnavailable, \* isFaceTrackingAvailable has been false
    lastFrame,    \* what the last draw() did
    ml5lib,       \* the ml5 library the page loaded: version, API names, events
    thisTracker,  \* the fields of one FaceTracker (the newest faceMesh.js)
    tasks,        \* that tracker's pending work: setup(), the model-loaded
                  \* callback, detection timers, predictions in flight
    trace,        \* what that tracker did, and what it did after dispose()
    dom,          \* index.html: section classes, reset button, error box
    app,          \* app.js and sketch.js: canvas, listener, error flag,
                  \* setup() promises pending
    events        \* faceTrackingError events: emitted, received, shown

sketchVars == <<isFaceTrackingAvailable, faceTracker, trackers, ui, frames,
                attractorsFrom, wentUnavailable, lastFrame>>

loopVars == <<pc, idx, ticks, processed, prevAttracted, started, graveyard, history>>

asyncVars == <<ml5lib, thisTracker, tasks, trace, dom, app, events>>

vars == <<particles, attractors, pc, idx, ticks, nextId, processed, prevAttracted,
          started, graveyard, history, isFaceTrackingAvailable, faceTracker, trackers, ui,
          frames, attractorsFrom, wentUnavailable, lastFrame, ml5lib, thisTracker,
          tasks, trace, dom, app, events>>

----------------------------------------------------------------------------
(* Fixed-point unit and the bounds of the model *)

Unit == 100

MaxTicks == 174

FreeTicks == 2

maxParticles == 2

width == 300 * Unit

height == 200 * Unit

Infinity == 2147483647

----------------------------------------------------------------------------
(* p5.Vector arithmetic *)

Vec(x, y) == [x |-> x, y |-> y]

Zero == Vec(0, 0)

TDiv(a, b) == IF a >= 0 THEN a \div b ELSE -((-a) \div b)

RECURSIVE SqrtIter(_, _, _)
SqrtIter(n, lo, hi) ==
    IF lo >= hi THEN lo
    ELSE LET mid == (lo + hi + 1) \div 2
         IN  IF mid * mid <= n THEN SqrtIter(n, mid, hi)
                               ELSE SqrtIter(n, lo, mid - 1)

SqrtDown(n) == SqrtIter(n, 0, IF n < 46340 THEN n ELSE 46340)

SqrtUp(n) == LET r == SqrtDown(n) IN IF r * r = n THEN r ELSE r + 1

Add(a, b) == Vec(a.x + b.x, a.y + b.y)

Sub(a, b) == Vec(a.x - b.x, a.y - b.y)

\* v.mult(s), s a fixed-point scalar
Mult(v, s) == Vec(TDiv(v.x * s, Unit), TDiv(v.y * s, Unit))

\* v.div(s), s a fixed-point scalar
Div(v, s) == Vec(TDiv(v.x * Unit, s), TDiv(v.y * Unit, s))

MagSq(v) == v.x * v.x + v.y * v.y

\* Components beyond Far are measured at whole-unit precision: every length
\* the program compares a magnitude with is below Far.
Far == 300 * Unit

IsFar(v) == v.x >= Far \/ v.x <= -Far \/ v.y >= Far \/ v.y <= -Far

Whole(v) == Vec(TDiv(v.x, Unit), TDiv(v.y, Unit))

\* v.mag() where it is compared with a threshold
Mag(v) == IF IsFar(v) THEN Unit * SqrtDown(MagSq(Whole(v))) ELSE SqrtDown(MagSq(v))

\* v.mag() where it is divided by
MagUp(v) == IF IsFar(v) THEN Unit * SqrtUp(MagSq(Whole(v))) ELSE SqrtUp(MagSq(v))

Dist(a, b) == Mag(Sub(a, b))

\* v.normalize(): unchanged when the length is 0
Normalize(v) == IF v = Zero THEN v ELSE Div(v, MagUp(v))

\* v.limit(max)
Limit(v, max) ==
    IF MagSq(v) > max * max THEN Mult(Div(v, MagUp(v)), max) ELSE v

\* p5 map(n, start1, stop1, start2, stop2)
Map(n, start1, stop1, start2, stop2) ==
    TDiv((n - start1) * (stop2 - start2), stop1 - start1) + start2

Min(a, b) == IF a < b THEN a ELSE b

----------------------------------------------------------------------------
(* Particle *)

\* What random() can return, as far as the model draws it: a spawn is the
\* position (random(width), random(height)), the velocity
\* random2D().mult(random(0.5, 2)) and the decay random(0.5, 1.5).
SpawnChoices ==
    { [pos |-> Vec(10 * Unit, 100 * Unit), vel |-> Vec(-150, 0),  decay |-> 149],
      [pos |-> Vec(30 * Unit, 100 * Unit), vel |-> Vec(120, -90), decay |-> 50],
      [pos |-> Vec(290 * Unit, 100 * Unit), vel |-> Vec(150, 0),  decay |-> 149] }

SizeChoice == 5 * Unit

ColorChoice == [r |-> 200 * Unit, g |-> 200 * Unit, b |-> 200 * Unit, a |-> 175 * Unit]

\* new Particle(x, y)
NewParticle(id, s) ==
    [ id           |-> id,
      position     |-> s.pos,
      velocity     |-> s.vel,
      acceleration |-> Zero,
      maxSpeed     |-> 4 * Unit,
      maxForce     |-> Unit \div 10,
      size         |-> SizeChoice,
      color        |-> ColorChoice,
      lifespan     |-> 255 * Unit,
      decay        |-> s.decay,
      isAttracted  |-> FALSE ]

applyForce(p, force) == [p EXCEPT !.acceleration = Add(p.acceleration, force)]

\* seek without steer.limit(maxForce)
seekNoLimit(p, target, strength) ==
    LET desired  == Sub(target, p.position)
        distance == Mag(desired)
    IN  IF distance < 1 * Unit THEN Zero
        ELSE LET d2    == Mult(Normalize(desired), p.maxSpeed)
                 steer == Sub(d2, p.velocity)
             IN  Mult(steer, strength)

\* seek without the distance < 1 early return
seekNoGuard(p, target, strength) ==
    LET desired == Sub(target, p.position)
        d2      == Mult(Normalize(desired), p.maxSpeed)
        steer   == Limit(Sub(d2, p.velocity), p.maxForce)
    IN  Mult(steer, strength)

seek(p, target, strength) ==
    LET desired  == Sub(target, p.position)
        distance == Mag(desired)
    IN  IF distance < 1 * Unit THEN Zero
        ELSE LET d2    == Mult(Normalize(desired), p.maxSpeed)
                 steer == Limit(Sub(d2, p.velocity), p.maxForce)
             IN  Mult(steer, strength)

\* the neighbours without the d > 0 guard
NeighboursWithSelf(p, ps, range) ==
    SelectSeq(ps, LAMBDA o : Dist(p.position, o.position) < range)

\* the neighbours without the range test
NeighboursAnyRange(p, ps, range) ==
    SelectSeq(ps, LAMBDA o : Dist(p.position, o.position) > 0)

\* the neighbours a behaviour counts: 0 < d < range, in list order
Neighbours(p, ps, range) ==
    SelectSeq(ps, LAMBDA o : LET d == Dist(p.position, o.position)
                             IN  d > 0 /\ d < range)

\* the sum of a sequence of vectors, added in order
RECURSIVE SumSeq(_)
SumSeq(s) == IF s = <<>> THEN Zero ELSE Add(Head(s), SumSeq(Tail(s)))

separate(p, ps) ==
    LET desiredSeparation == 25 * Unit
        near  == Neighbours(p, ps, desiredSeparation)
        count == Len(near)
        Away(o) == Div(Normalize(Sub(p.position, o.position)),
                       Dist(p.position, o.position))
        sum   == SumSeq([k \in 1..count |-> Away(near[k])])
        steer == IF count > 0 THEN Div(sum, count * Unit) ELSE sum
    IN  IF Mag(steer) > 0
        THEN Limit(Sub(Mult(Normalize(steer), p.maxSpeed), p.velocity), p.maxForce)
        ELSE steer

\* align() counting the particle itself among its neighbours
alignCountsSelf(p, ps) ==
    LET neighborDistance == 50 * Unit
        near  == NeighboursWithSelf(p, ps, neighborDistance)
        count == Len(near)
        sum   == SumSeq([k \in 1..count |-> near[k].velocity])
    IN  IF count > 0
        THEN LET avg == Mult(Normalize(Div(sum, count * Unit)), p.maxSpeed)
             IN  Limit(Sub(avg, p.velocity), p.maxForce)
        ELSE Zero

align(p, ps) ==
    LET neighborDistance == 50 * Unit
        near  == Neighbours(p, ps, neighborDistance)
        count == Len(near)
        sum   == SumSeq([k \in 1..count |-> near[k].velocity])
    IN  IF count > 0
        THEN LET avg == Mult(Normalize(Div(sum, count * Unit)), p.maxSpeed)
             IN  Limit(Sub(avg, p.velocity), p.maxForce)
        ELSE Zero

cohesion(p, ps) ==
    LET neighborDistance == 50 * Unit
        near  == Neighbours(p, ps, neighborDistance)
        count == Len(near)
        sum   == SumSeq([k \in 1..count |-> near[k].position])
    IN  IF count > 0
        THEN seek(p, Div(sum, count * Unit), Unit \div 2)
        ELSE Zero

\* borders() steering toward the edge it is near instead of away from it
BordersDesiredFlipped(p, w, h) ==
    LET buffer == 50 * Unit
        dx == IF p.position.x < buffer THEN << Vec(-p.maxSpeed, p.velocity.y) >>
              ELSE IF p.position.x > w - buffer THEN << Vec(p.maxSpeed, p.velocity.y) >>
              ELSE <<>>
    IN  IF p.position.y < buffer
        THEN (IF dx # <<>> THEN dx ELSE << Vec(p.velocity.x, p.maxSpeed) >>)
        ELSE IF p.position.y > h - buffer
        THEN (IF dx # <<>> THEN dx ELSE << Vec(p.velocity.x, -p.maxSpeed) >>)
        ELSE dx

\* borders() letting the y-edge correction win over the x-edge one
BordersDesiredYFirst(p, w, h) ==
    LET buffer == 50 * Unit
        dy == IF p.position.y < buffer THEN << Vec(p.velocity.x, p.maxSpeed) >>
              ELSE IF p.position.y > h - buffer THEN << Vec(p.velocity.x, -p.maxSpeed) >>
              ELSE <<>>
    IN  IF dy # <<>> THEN dy
        ELSE IF p.position.x < buffer THEN << Vec(p.maxSpeed, p.velocity.y) >>
        ELSE IF p.position.x > w - buffer THEN << Vec(-p.maxSpeed, p.velocity.y) >>
        ELSE <<>>

\* desired of borders(): <<>> for null, <<v>> for a vector v
BordersDesired(p, w, h) ==
    LET buffer == 50 * Unit
        dx == IF p.position.x < buffer THEN << Vec(p.maxSpeed, p.velocity.y) >>
              ELSE IF p.position.x > w - buffer THEN << Vec(-p.maxSpeed, p.velocity.y) >>
              ELSE <<>>
    IN  IF p.position.y < buffer
        THEN (IF dx # <<>> THEN dx ELSE << Vec(p.velocity.x, p.maxSpeed) >>)
        ELSE IF p.position.y > h - buffer
        THEN (IF dx # <<>> THEN dx ELSE << Vec(p.velocity.x, -p.maxSpeed) >>)
        ELSE dx

borders(p, w, h) ==
    LET desired == BordersDesired(p, w, h)
    IN  IF desired # <<>>
        THEN Limit(Sub(Mult(Normalize(desired[1]), p.maxSpeed), p.velocity), p.maxForce)
        ELSE Zero

\* update() without velocity.limit(maxSpeed)
MoveNoLimit(p) ==
    LET v == Add(p.velocity, p.acceleration)
    IN  [p EXCEPT !.velocity = v,
                  !.position = Add(p.position, v),
                  !.acceleration = Mult(p.acceleration, 0)]

\* update() without acceleration.mult(0)
MoveNoReset(p) ==
    LET v == Limit(Add(p.velocity, p.acceleration), p.maxSpeed)
    IN  [p EXCEPT !.velocity = v,
                  !.position = Add(p.position, v)]

\* the kinematic half of Particle.update()
Move(p) ==
    LET v == Limit(Add(p.velocity, p.acceleration), p.maxSpeed)
    IN  [p EXCEPT !.velocity = v,
                  !.position = Add(p.position, v),
                  !.acceleration = Mult(p.acceleration, 0)]

\* update() regenerating without min(255, ...)
AgeNoCap(p) ==
    IF ~p.isAttracted
    THEN [p EXCEPT !.lifespan = p.lifespan - p.decay]
    ELSE [p EXCEPT !.lifespan = p.lifespan + p.decay * 2]

\* update() regenerating by decay instead of decay * 2
AgeSingleRegen(p) ==
    IF ~p.isAttracted
    THEN [p EXCEPT !.lifespan = p.lifespan - p.decay]
    ELSE [p EXCEPT !.lifespan = Min(255 * Unit, p.lifespan + p.decay)]

\* update() ageing the particle whether or not it is attracted
AgeIgnoresFlag(p) == [p EXCEPT !.lifespan = p.lifespan - p.decay]

\* the lifespan half of Particle.update()
Age(p) ==
    IF ~p.isAttracted
    THEN [p EXCEPT !.lifespan = p.lifespan - p.decay]
    ELSE [p EXCEPT !.lifespan = Min(255 * Unit, p.lifespan + p.decay * 2)]

\* Particle.update()
update(p) == Age(Move(p))

isDead(p) == p.lifespan <= 0

----------------------------------------------------------------------------
(* ParticleSystem *)

\* addParticle(), once for each spawn of the sequence
RECURSIVE AddParticles(_, _, _)
AddParticles(ps, spawns, id) ==
    IF spawns = <<>> THEN ps
    ELSE AddParticles(Append(ps, NewParticle(id, Head(spawns))), Tail(spawns), id + 1)

\* the scan accepting an attractor at exactly 150
RECURSIVE ClosestInclusive(_, _, _, _)
ClosestInclusive(pos, atts, k, best) ==
    IF k > Len(atts) THEN best
    ELSE LET d == Dist(pos, atts[k])
         IN  IF d < best.dist /\ d <= 150 * Unit
             THEN ClosestInclusive(pos, atts, k + 1, [dist |-> d, att |-> k])
             ELSE ClosestInclusive(pos, atts, k + 1, best)

\* the scan letting a later attractor at the same distance replace the choice
RECURSIVE ClosestLastWins(_, _, _, _)
ClosestLastWins(pos, atts, k, best) ==
    IF k > Len(atts) THEN best
    ELSE LET d == Dist(pos, atts[k])
         IN  IF d <= best.dist /\ d < 150 * Unit
             THEN ClosestLastWins(pos, atts, k + 1, [dist |-> d, att |-> k])
             ELSE ClosestLastWins(pos, atts, k + 1, best)

\* the scan for the closest attractor within range: [dist, att], att = 0 for null
RECURSIVE Closest(_, _, _, _)
Closest(pos, atts, k, best) ==
    IF k > Len(atts) THEN best
    ELSE LET d == Dist(pos, atts[k])
         IN  IF d < best.dist /\ d < 150 * Unit
             THEN Closest(pos, atts, k + 1, [dist |-> d, att |-> k])
             ELSE Closest(pos, atts, k + 1, best)

closestAttractor(pos, atts) ==
    IF Len(atts) > 0 THEN Closest(pos, atts, 1, [dist |-> Infinity, att |-> 0])
    ELSE [dist |-> Infinity, att |-> 0]

\* the strength mapped onto [0.5, 2.5] instead of [2.5, 0.5]
StrengthRising(closestDist) == Map(closestDist, 0, 150 * Unit, 50, 250)

\* the attraction strength for a closest distance
Strength(closestDist) == Map(closestDist, 0, 150 * Unit, 250, 50)

\* the four behaviours of update(), as returned, before update()'s multipliers
Flock(p, ps) ==
    [ sep |-> separate(p, ps), ali |-> align(p, ps),
      coh |-> cohesion(p, ps), bor |-> borders(p, width, height) ]

\* the four behaviours adding to the velocity instead of the acceleration
applyFlockToVelocity(p, f) ==
    [p EXCEPT !.velocity =
        Add(Add(Add(Add(p.velocity, Mult(f.sep, 150)), Mult(f.ali, 100)),
                Mult(f.coh, 100)), Mult(f.bor, 150))]

\* update() applying the four behaviours with its multipliers
applyFlock(p, f) ==
    applyForce(applyForce(applyForce(applyForce(p,
        Mult(f.sep, 150)), Mult(f.ali, 100)), Mult(f.coh, 100)), Mult(f.bor, 150))

\* the attraction block setting the flag whenever the list is non-empty
attractAlways(p, atts) ==
    LET p0    == [p EXCEPT !.isAttracted = FALSE]
        found == closestAttractor(p0.position, atts)
        hit   == found.att # 0
        strength   == IF hit THEN Strength(found.dist) ELSE 0
        attraction == IF hit THEN seek(p0, atts[found.att], strength) ELSE Zero
        p1    == IF hit THEN applyForce(p0, attraction) ELSE p0
    IN  [ p |-> [p1 EXCEPT !.isAttracted = Len(atts) > 0],
          hit |-> hit, att |-> found.att, dist |-> found.dist,
          strength |-> strength, attraction |-> attraction ]

\* the attraction block without the flag reset
attractNoReset(p, atts) ==
    LET found == closestAttractor(p.position, atts)
        hit   == found.att # 0
        strength   == IF hit THEN Strength(found.dist) ELSE 0
        attraction == IF hit THEN seek(p, atts[found.att], strength) ELSE Zero
    IN  [ p |-> IF hit THEN [applyForce(p, attraction) EXCEPT !.isAttracted = TRUE]
                ELSE p,
          hit |-> hit, att |-> found.att, dist |-> found.dist,
          strength |-> strength, attraction |-> attraction ]

\* update()'s attraction block on particle p: the flag reset, the scan, and the
\* force; the particle it leaves and what it found
attract(p, atts) ==
    LET p0    == [p EXCEPT !.isAttracted = FALSE]
        found == closestAttractor(p0.position, atts)
        hit   == found.att # 0
        strength   == IF hit THEN Strength(found.dist) ELSE 0
        attraction == IF hit THEN seek(p0, atts[found.att], strength) ELSE Zero
    IN  [ p |-> IF hit THEN [applyForce(p0, attraction) EXCEPT !.isAttracted = TRUE]
                ELSE p0,
          hit |-> hit, att |-> found.att, dist |-> found.dist,
          strength |-> strength, attraction |-> attraction ]

\* splice that removes nothing
SpliceKeep(s, i) == s

\* the dead particle replaced in place by a new one, inside the loop
SpliceRespawn(s, i) ==
    [s EXCEPT ![i] = NewParticle(s[i].id, CHOOSE c \in SpawnChoices : TRUE)]

\* splice(i - 1, 1): removes the element below the dead one
SpliceBelow(s, i) == SubSeq(s, 1, i - 2) \o SubSeq(s, i, Len(s))

\* splice(i, 1)
Splice(s, i) == SubSeq(s, 1, i - 1) \o SubSeq(s, i + 1, Len(s))

\* the lists of landmarks the tracker or the fallback generator hands over
AttractorChoices ==
    { <<>>,
      << Vec(30 * Unit, 100 * Unit), Vec(20 * Unit, 100 * Unit),
         Vec(140 * Unit, 100 * Unit), Vec(10 * Unit, 110 * Unit) >> }

\* the refill loop running while length <= maxParticles
MissingOffByOne(n) == IF n <= maxParticles THEN maxParticles + 1 - n ELSE 0

\* how many particles update()'s while loop adds to a population of n
Missing(n) == IF n < maxParticles THEN maxParticles - n ELSE 0

\* the body of update()'s for loop on ps[i] (1-based), with the attractor list
\* atts: the population it leaves and the record of what it did
ProcessParticle(ps, atts, i) ==
    LET p  == ps[i]
        f  == Flock(p, ps)
        p1 == applyFlock(p, f)
        a  == attract(p1, atts)
        p4 == update(a.p)
        dead == isDead(p4)
        updated == [ps EXCEPT ![i] = p4]
    IN  [ particles |-> IF dead THEN Splice(updated, i) ELSE updated,
          entry |-> [ id |-> p.id, before |-> p, atts |-> atts,
                      sep |-> f.sep, ali |-> f.ali, coh |-> f.coh, bor |-> f.bor,
                      flock |-> p1.acceleration,
                      hit |-> a.hit, att |-> a.att, dist |-> a.dist,
                      strength |-> a.strength, attraction |-> a.attraction,
                      mid |-> a.p, after |-> p4, dead |-> dead ] ]

\* new FaceTracker(); setup records the promise of setup(): "none" before the
\* call, then "pending", then "resolved" or "rejected"
NewFaceTracker ==
    [ isReady |-> FALSE, keypoints |-> <<>>, setup |-> "none", loaded |-> FALSE ]

\* lastFrame before any draw(): mode is what draw() did, attractors the list it
\* updated the particle system with, from who built that list, unavailable
\* whether isFaceTrackingAvailable had been false when it ran
NoFrame == [ mode |-> "none", attractors |-> <<>>, from |-> "none",
             unavailable |-> FALSE ]

\* the sketch's globals after p5's setup() found a face API
SketchStart ==
    /\ isFaceTrackingAvailable = TRUE
    /\ faceTracker = 1
    /\ trackers = << NewFaceTracker >>
    /\ ui = "intro"
    /\ frames = 0
    /\ attractorsFrom = "none"
    /\ wentUnavailable = FALSE
    /\ lastFrame = NoFrame

\* the loop bookkeeping between update() calls
LoopIdle ==
    /\ pc = "idle"
    /\ idx = 0
    /\ ticks = 0
    /\ processed = <<>>
    /\ prevAttracted = {}
    /\ started = <<>>
    /\ graveyard = {}
    /\ history = <<>>

\* history after one more processing of a particle
Recorded(h, e) ==
    LET old == IF e.id \in DOMAIN h THEN h[e.id]
               ELSE [decay |-> e.before.decay, calls |-> 0, attracted |-> 0]
        hits == IF e.mid.isAttracted THEN old.attracted + 1 ELSE old.attracted
        new == [old EXCEPT !.calls = @ + 1,
                           !.attracted = IF old.attracted = -1 THEN -1
                                         ELSE IF hits = 0 \/ hits = old.calls + 1
                                              THEN hits
                                              ELSE -1]
    IN  [id \in DOMAIN h \cup {e.id} |-> IF id = e.id THEN new ELSE h[id]]

\* a FaceTracker after its constructor
NewTracker ==
    [ isReady |-> FALSE, isProcessing |-> FALSE, usePollingForDetection |-> FALSE,
      isML5_0_12_2 |-> FALSE, useFaceMeshApi |-> FALSE, faceMeshInstance |-> FALSE,
      eventBound |-> FALSE, keypoints |-> "none" ]

\* no setup() called, no callback, timer or prediction pending
NoTasks == [ setup |-> "new", callback |-> "none", timers |-> 0, running |-> 0,
             orphaned |-> 0 ]

NoTrace == [ disposed |-> FALSE, predicted |-> FALSE, startedAfterDispose |-> FALSE,
             scheduledAfterDispose |-> FALSE ]

\* index.html as served: the intro section active, the reset button hidden,
\* the error box not displayed
PageLoaded == [ intro |-> TRUE, experience |-> FALSE, resetHidden |-> TRUE,
                errorText |-> "none", errorDisplay |-> "none", hideTimers |-> 0 ]

\* app.js after DOMContentLoaded and sketch.js after its script ran, before
\* p5 calls setup()
AppLoaded == [ canvas |-> "undefined", listening |-> FALSE,
               hasShownFaceTrackingError |-> FALSE, pending |-> 0,
               clicks |-> <<>> ]

NoEvents == [ emitted |-> 0, received |-> 0, shown |-> 0 ]

\* the page pins ml5 0.12.2, whose facemesh has on()
PinnedMl5 == [ version |-> "0.12.2", apis |-> {"facemesh"}, on |-> "binds" ]

\* the tracker's detection and the page at rest
AsyncIdle ==
    /\ ml5lib = PinnedMl5
    /\ thisTracker = NewTracker
    /\ tasks = NoTasks
    /\ trace = NoTrace
    /\ dom = PageLoaded
    /\ app = AppLoaded
    /\ events = NoEvents

Init ==
    /\ \E spawns \in [1..maxParticles -> SpawnChoices] :
           particles = AddParticles(<<>>, spawns, 1)
    /\ attractors = <<>>
    /\ nextId = maxParticles + 1
    /\ LoopIdle
    /\ AsyncIdle
    /\ SketchStart

\* setAttractors(landmarks); the tracker's list may change during the first
\* FreeTicks frames and is handed over unchanged afterwards
SetAttractors ==
    /\ pc = "idle"
    /\ ticks < FreeTicks
    /\ \E landmarks \in AttractorChoices : attractors' = landmarks
    /\ UNCHANGED <<particles, pc, idx, ticks, nextId, processed, prevAttracted,
                   started, graveyard, history>>
    /\ UNCHANGED sketchVars
    /\ UNCHANGED asyncVars

\* update(): the while loop that refills the population, and the loop header
UpdateReplenish ==
    /\ pc = "idle"
    /\ ticks < MaxTicks
    /\ \E spawns \in [1..Missing(Len(particles)) -> SpawnChoices] :
           /\ particles' = AddParticles(particles, spawns, nextId)
           /\ nextId' = nextId + Len(spawns)
    /\ idx' = Len(particles') - 1
    /\ pc' = IF idx' >= 0 THEN "loop" ELSE "idle"
    /\ ticks' = ticks + 1
    /\ processed' = <<>>
    /\ prevAttracted' = { particles[k].id :
                            k \in { j \in 1..Len(particles) : particles[j].isAttracted } }
    /\ started' = particles'
    /\ UNCHANGED <<attractors, graveyard, history>>
    /\ UNCHANGED sketchVars
    /\ UNCHANGED asyncVars

\* one iteration of update()'s for loop, on particles[i] (idx is the 0-based i)
UpdateParticle ==
    /\ pc = "loop"
    /\ \E r \in { ProcessParticle(particles, attractors, idx + 1) } :
           /\ particles' = r.particles
           /\ processed' = Append(processed, r.entry)
           /\ graveyard' = IF r.entry.dead THEN graveyard \cup {r.entry.id}
                                           ELSE graveyard
           /\ history' = Recorded(history, r.entry)
    /\ idx' = idx - 1
    /\ pc' = IF idx' >= 0 THEN "loop" ELSE "idle"
    /\ UNCHANGED <<attractors, ticks, nextId, prevAttracted, started>>
    /\ UNCHANGED sketchVars
    /\ UNCHANGED asyncVars

Next == SetAttractors \/ UpdateReplenish \/ UpdateParticle

Spec == Init /\ [][Next]_vars

----------------------------------------------------------------------------
(* The sketch: draw(), setupSketch(), resetSketch() and the tracker's setup() *)

MaxFrames == 2

MaxTrackers == 2

\* the update() for loop from index i (1-based) down to 1, as one function
RECURSIVE UpdateLoop(_, _, _)
UpdateLoop(ps, atts, i) ==
    IF i < 1 THEN ps
    ELSE UpdateLoop(ProcessParticle(ps, atts, i).particles, atts, i - 1)

\* the ml5 builds the model draws: the sets of API names the library has
Ml5Choices == { {"facemesh", "poseNet"}, {"poseNet", "imageClassifier"} }

\* checkMl5Features(): whether a face API was found
HasFaceApi(ml5) == ml5 \cap {"facemesh", "FaceMesh", "face", "faceApi"} # {}

\* the keypoint lists a detection can leave in the tracker
KeypointChoices ==
    { <<>>, << Vec(140 * Unit, 90 * Unit), Vec(160 * Unit, 90 * Unit) >> }

\* cos(k * PI / 8) in units of 1/10000, k = 0..15
CosTable ==
    << 10000, 9239, 7071, 3827, 0, -3827, -7071, -9239,
       -10000, -9239, -7071, -3827, 0, 3827, 7071, 9239 >>

Cos8(k) == CosTable[(k % 16) + 1]

Sin8(k) == CosTable[((k + 12) % 16) + 1]

\* the face-shaped list runFallbackMode() builds: eyes, nose, mouth, and the
\* outline for angle = 0, PI/8, ... below TWO_PI
SyntheticAttractors ==
    LET centerX  == width \div 2
        centerY  == height \div 2
        faceSize == TDiv(Min(width, height) * 30, Unit)
        At(fx, fy) == Vec(centerX + TDiv(faceSize * fx, Unit),
                          centerY + TDiv(faceSize * fy, Unit))
        Outline(k) == Vec(centerX + TDiv(Cos8(k) * (faceSize \div 2), 10000),
                          centerY + TDiv(Sin8(k) * (faceSize \div 2), 10000))
    IN  << At(-20, -20), At(20, -20), At(0, 0), At(-15, 20), At(15, 20) >>
        \o [k \in 1..16 |-> Outline(k - 1)]

\* the steps random(-1, 1) moves the attractors by; the model moves every
\* attractor of a frame by the same step
JitterChoices == { Vec(0, 0), Vec(50, -50) }

\* the spawns of a new ParticleSystem in the sketch: one draw of random()
SketchSpawns ==
    LET s == << [pos |-> Vec(140 * Unit, 100 * Unit), vel |-> Vec(120, -90),
                 decay |-> 50],
                [pos |-> Vec(10 * Unit, 100 * Unit), vel |-> Vec(-150, 0),
                 decay |-> 149] >>
    IN  [k \in 1..maxParticles |-> s[((k - 1) % 2) + 1]]

SketchInit ==
    /\ particles = AddParticles(<<>>, SketchSpawns, 1)
    /\ attractors = <<>>
    /\ nextId = maxParticles + 1
    /\ LoopIdle
    /\ AsyncIdle
    /\ \E ml5 \in Ml5Choices :
           /\ isFaceTrackingAvailable = HasFaceApi(ml5)
           /\ wentUnavailable = ~HasFaceApi(ml5)
    /\ faceTracker = 1
    /\ trackers = << NewFaceTracker >>
    /\ ui = "intro"
    /\ frames = 0
    /\ attractorsFrom = "none"
    /\ lastFrame = NoFrame

\* particleSystem.update() with the list atts, as one step
SystemUpdate(atts) ==
    \E spawns \in [1..Missing(Len(particles)) -> SpawnChoices] :
        /\ particles' = UpdateLoop(AddParticles(particles, spawns, nextId), atts,
                                   Len(particles) + Len(spawns))
        /\ nextId' = nextId + Len(spawns)

\* runFallbackMode()
RunFallbackMode ==
    LET build == attractors = <<>>
        list  == IF build THEN SyntheticAttractors ELSE attractors
        from  == IF build THEN "fallback" ELSE attractorsFrom
    IN  /\ SystemUpdate(list)
        /\ \E j \in JitterChoices :
               attractors' = [k \in 1..Len(list) |-> Add(list[k], j)]
        /\ attractorsFrom' = from
        /\ lastFrame' = [mode |-> "fallback", attractors |-> list, from |-> from,
                         unavailable |-> wentUnavailable]

\* draw()
Draw ==
    /\ frames < MaxFrames
    /\ frames' = frames + 1
    /\ IF isFaceTrackingAvailable
       THEN IF trackers[faceTracker].isReady
            THEN LET keypoints == trackers[faceTracker].keypoints
                 IN  /\ attractors' = keypoints
                     /\ attractorsFrom' = "tracker"
                     /\ SystemUpdate(keypoints)
                     /\ lastFrame' = [mode |-> "tracker", attractors |-> keypoints,
                                      from |-> "tracker",
                                      unavailable |-> wentUnavailable]
            ELSE /\ UNCHANGED <<particles, attractors, nextId, attractorsFrom>>
                 /\ lastFrame' = [mode |-> "skip", attractors |-> <<>>,
                                  from |-> "none", unavailable |-> wentUnavailable]
       ELSE RunFallbackMode
    /\ UNCHANGED <<isFaceTrackingAvailable, faceTracker, trackers, ui, wentUnavailable>>
    /\ UNCHANGED loopVars
    /\ UNCHANGED asyncVars

\* setupSketch(), called by the start button: starts the tracker's setup()
SetupSketch ==
    /\ ui = "intro"
    /\ ui' = "experience"
    /\ trackers' = IF isFaceTrackingAvailable
                   THEN [trackers EXCEPT ![faceTracker].setup = "pending"]
                   ELSE trackers
    /\ UNCHANGED <<particles, attractors, nextId, isFaceTrackingAvailable, faceTracker,
                   frames, attractorsFrom, wentUnavailable, lastFrame>>
    /\ UNCHANGED loopVars
    /\ UNCHANGED asyncVars

\* the model-loaded callback of a tracker whose setup() is awaiting the model
ModelLoaded ==
    /\ \E t \in 1..Len(trackers) :
           /\ trackers[t].setup = "pending"
           /\ ~trackers[t].loaded
           /\ trackers' = [trackers EXCEPT ![t].isReady = TRUE, ![t].loaded = TRUE]
    /\ UNCHANGED <<particles, attractors, nextId, isFaceTrackingAvailable, faceTracker,
                   ui, frames, attractorsFrom, wentUnavailable, lastFrame>>
    /\ UNCHANGED loopVars
    /\ UNCHANGED asyncVars

\* a tracker's setup() resolves: detection is bound or polling
SetupResolves ==
    /\ \E t \in 1..Len(trackers) :
           /\ trackers[t].setup = "pending"
           /\ trackers' = [trackers EXCEPT ![t].setup = "resolved"]
    /\ UNCHANGED <<particles, attractors, nextId, isFaceTrackingAvailable, faceTracker,
                   ui, frames, attractorsFrom, wentUnavailable, lastFrame>>
    /\ UNCHANGED loopVars
    /\ UNCHANGED asyncVars

\* a tracker's setup() rejects: the catch handler setupSketch() attached runs
SetupRejects ==
    /\ \E t \in 1..Len(trackers) :
           /\ trackers[t].setup = "pending"
           /\ trackers' = [trackers EXCEPT ![t].setup = "rejected"]
    /\ isFaceTrackingAvailable' = FALSE
    /\ wentUnavailable' = TRUE
    /\ UNCHANGED <<particles, attractors, nextId, faceTracker, ui, frames,
                   attractorsFrom, lastFrame>>
    /\ UNCHANGED loopVars
    /\ UNCHANGED asyncVars

\* processFaceDetection() on a tracker whose detection runs
Detect ==
    /\ \E t \in 1..Len(trackers) :
           /\ trackers[t].setup = "resolved"
           /\ trackers[t].isReady
           /\ \E keypoints \in KeypointChoices :
                  /\ keypoints # trackers[t].keypoints
                  /\ trackers' = [trackers EXCEPT ![t].keypoints = keypoints]
    /\ UNCHANGED <<particles, attractors, nextId, isFaceTrackingAvailable, faceTracker,
                   ui, frames, attractorsFrom, wentUnavailable, lastFrame>>
    /\ UNCHANGED loopVars
    /\ UNCHANGED asyncVars

\* resetSketch(), called by the reset button
ResetSketch ==
    /\ ui = "experience"
    /\ ui' = "intro"
    /\ isFaceTrackingAvailable => Len(trackers) < MaxTrackers
    /\ LET disposed == [trackers EXCEPT ![faceTracker].isReady = FALSE]
       IN  IF isFaceTrackingAvailable
           THEN /\ trackers' = Append(disposed, NewFaceTracker)
                /\ faceTracker' = Len(trackers) + 1
           ELSE /\ trackers' = disposed
                /\ faceTracker' = faceTracker
    /\ particles' = AddParticles(<<>>, SketchSpawns, 1)
    /\ nextId' = maxParticles + 1
    /\ attractors' = <<>>
    /\ attractorsFrom' = "none"
    /\ UNCHANGED <<isFaceTrackingAvailable, frames, wentUnavailable, lastFrame>>
    /\ UNCHANGED loopVars
    /\ UNCHANGED asyncVars

SketchNext ==
    \/ Draw
    \/ SetupSketch
    \/ ModelLoaded
    \/ SetupResolves
    \/ SetupRejects
    \/ Detect
    \/ ResetSketch

SketchSpec == SketchInit /\ [][SketchNext]_vars

----------------------------------------------------------------------------
(* A tracked frame: draw() with the tracker ready, update() taken one loop  *)
(* iteration at a time, and the tracker storing detections.  Callbacks run  *)
(* between frames; the model also lets a detection land between two loop    *)
(* iterations, which a single-threaded run excludes.                        *)

FrameInit ==
    /\ \E spawns \in [1..maxParticles -> SpawnChoices] :
           particles = AddParticles(<<>>, spawns, 1)
    /\ attractors = <<>>
    /\ nextId = maxParticles + 1
    /\ LoopIdle
    /\ AsyncIdle
    /\ isFaceTrackingAvailable = TRUE
    /\ faceTracker = 1
    /\ trackers = << [NewFaceTracker EXCEPT !.isReady = TRUE, !.loaded = TRUE,
                                           !.setup = "resolved"] >>
    /\ ui = "experience"
    /\ frames = 0
    /\ attractorsFrom = "none"
    /\ wentUnavailable = FALSE
    /\ lastFrame = NoFrame

\* processFaceDetection() writing the tracker's list over the list the particle
\* system was handed, as if the two were one array changed in place
StoreDetectionInPlace ==
    /\ \E keypoints \in KeypointChoices :
           /\ keypoints # trackers[faceTracker].keypoints
           /\ trackers' = [trackers EXCEPT ![faceTracker].keypoints = keypoints]
           /\ attractors' = IF attractorsFrom = "tracker" THEN keypoints ELSE attractors
    /\ UNCHANGED <<particles, nextId, isFaceTrackingAvailable, faceTracker,
                   ui, frames, attractorsFrom, wentUnavailable, lastFrame>>
    /\ UNCHANGED loopVars
    /\ UNCHANGED asyncVars

\* processFaceDetection(): the tracker stores the keypoints of a detection in a
\* new array
StoreDetection ==
    /\ \E keypoints \in KeypointChoices :
           /\ keypoints # trackers[faceTracker].keypoints
           /\ trackers' = [trackers EXCEPT ![faceTracker].keypoints = keypoints]
    /\ UNCHANGED <<particles, attractors, nextId, isFaceTrackingAvailable, faceTracker,
                   ui, frames, attractorsFrom, wentUnavailable, lastFrame>>
    /\ UNCHANGED loopVars
    /\ UNCHANGED asyncVars

\* draw() with the tracker ready, up to the header of update()'s for loop:
\* setAttractors(getKeypoints()), the refill, and the loop variable
DrawTracked ==
    /\ pc = "idle"
    /\ frames < MaxFrames
    /\ isFaceTrackingAvailable /\ trackers[faceTracker].isReady
    /\ frames' = frames + 1
    /\ attractors' = trackers[faceTracker].keypoints
    /\ attractorsFrom' = "tracker"
    /\ \E spawns \in [1..Missing(Len(particles)) -> SpawnChoices] :
           /\ particles' = AddParticles(particles, spawns, nextId)
           /\ nextId' = nextId + Len(spawns)
    /\ idx' = Len(particles') - 1
    /\ pc' = IF idx' >= 0 THEN "loop" ELSE "idle"
    /\ ticks' = ticks + 1
    /\ processed' = <<>>
    /\ prevAttracted' = { particles[k].id :
                            k \in { j \in 1..Len(particles) : particles[j].isAttracted } }
    /\ started' = particles'
    /\ lastFrame' = [mode |-> "tracker", attractors |-> attractors',
                     from |-> "tracker", unavailable |-> wentUnavailable]
    /\ UNCHANGED <<graveyard, history, isFaceTrackingAvailable, faceTracker, trackers,
                   ui, wentUnavailable>>
    /\ UNCHANGED asyncVars

FrameNext == StoreDetection \/ DrawTracked \/ UpdateParticle

FrameSpec == FrameInit /\ [][FrameNext]_vars

----------------------------------------------------------------------------
(* One FaceTracker of the newest faceMesh.js: setup(), the model-loaded     *)
(* callback, the detection loop with its timers and predictions, and        *)
(* dispose().  Each action is one run-to-completion step of the event loop: *)
(* a function runs until its next await, a promise or a timer resumes it.   *)

MaxOrphans == 2

\* the ml5 builds the tracker is set up with: every one has an API name that
\* checkMl5Features() accepts
TrackerLibs ==
    [ version : {"0.12.2", "1.0.0"},
      apis    : { {"facemesh"}, {"poseNet", "faceApi"}, {"face"} },
      on      : {"none", "binds", "throws"} ]

\* what a prediction settles with: a face, an empty array, or an error
PredictionOutcomes == {"face", "noface", "error"}

\* the step a detection function took: the tracker, its pending work, and
\* whether it started a prediction or scheduled a timer
Step(t, k, predicting, timing) ==
    [ tracker |-> t, tasks |-> k, started |-> predicting, scheduled |-> timing ]

\* detectFaceLoop() up to its first await
detectFaceLoop(t, k) ==
    IF ~t.isReady \/ ~t.faceMeshInstance THEN Step(t, k, FALSE, FALSE)
    ELSE IF t.isProcessing
         THEN Step(t, [k EXCEPT !.timers = @ + 1], FALSE, TRUE)
         ELSE Step([t EXCEPT !.isProcessing = TRUE],
                   [k EXCEPT !.running = @ + 1], TRUE, FALSE)

\* the finally block of detectFaceLoop()
LoopFinally(t, k) ==
    IF t.isReady /\ t.usePollingForDetection
    THEN Step([t EXCEPT !.isProcessing = FALSE], [k EXCEPT !.timers = @ + 1],
              FALSE, TRUE)
    ELSE Step([t EXCEPT !.isProcessing = FALSE], k, FALSE, FALSE)

\* detectFaceLoop() awaits safePredict(), which races predict() with a
\* 2000 ms timer
UsesSafePredict(t) == t.isML5_0_12_2 /\ t.useFaceMeshApi

\* processFaceDetection(results) for a prediction that resolved
Processed(outcome) == IF outcome = "face" THEN "face" ELSE "none"

\* the keypoints after the awaited prediction settled with outcome
KeypointsAfter(t, outcome) ==
    IF outcome = "error"
    THEN IF UsesSafePredict(t) THEN "dummy" ELSE t.keypoints
    ELSE Processed(outcome)

\* the record of what the tracker did, after a step
Traced(step) ==
    [ trace EXCEPT !.predicted = @ \/ step.started,
                   !.startedAfterDispose = @ \/ (trace.disposed /\ step.started),
                   !.scheduledAfterDispose = @ \/ (trace.disposed /\ step.scheduled) ]

Took(step) ==
    /\ thisTracker' = step.tracker
    /\ tasks' = step.tasks
    /\ trace' = Traced(step)

TrackerRest ==
    /\ UNCHANGED <<particles, attractors, nextId>>
    /\ UNCHANGED loopVars
    /\ UNCHANGED sketchVars
    /\ UNCHANGED <<dom, app, events>>

TrackerInit ==
    /\ particles = <<>>
    /\ attractors = <<>>
    /\ nextId = 1
    /\ LoopIdle
    /\ SketchStart
    /\ ml5lib \in TrackerLibs
    /\ thisTracker = NewTracker
    /\ tasks = NoTasks
    /\ trace = NoTrace
    /\ dom = PageLoaded
    /\ app = AppLoaded
    /\ events = NoEvents

\* setup() up to the await on the model's factory, which starts loading the
\* model and keeps the model-loaded callback
Setup ==
    /\ tasks.setup = "new"
    /\ thisTracker' =
           [ thisTracker EXCEPT
               !.isML5_0_12_2 = (ml5lib.version = "0.12.2"),
               !.useFaceMeshApi = ("facemesh" \in ml5lib.apis
                                     \/ "FaceMesh" \in ml5lib.apis) ]
    /\ tasks' = [tasks EXCEPT !.setup = "await", !.callback = "pending"]
    /\ UNCHANGED <<ml5lib, trace>>
    /\ TrackerRest

\* the model-loaded callback
ModelLoadedCallback ==
    /\ tasks.callback = "pending"
    /\ thisTracker' = [thisTracker EXCEPT !.isReady = TRUE]
    /\ tasks' = [tasks EXCEPT !.callback = "fired"]
    /\ UNCHANGED <<ml5lib, trace>>
    /\ TrackerRest

\* setup() after its await: the instance is stored and detection is bound to
\* an event or started by polling
SetupContinues ==
    /\ tasks.setup = "await"
    /\ LET t == [thisTracker EXCEPT !.faceMeshInstance = TRUE]
           k == [tasks EXCEPT !.setup = "done"]
           polling == [t EXCEPT !.usePollingForDetection = TRUE]
       IN  IF t.useFaceMeshApi /\ ml5lib.version = "0.12.2"
           THEN Took(detectFaceLoop(polling, k))
           ELSE IF ml5lib.on = "binds"
                THEN Took(Step([t EXCEPT !.eventBound = TRUE], k, FALSE, FALSE))
                ELSE Took(detectFaceLoop(polling, k))
    /\ UNCHANGED ml5lib
    /\ TrackerRest

\* the model's factory rejects: setup() throws
SetupThrows ==
    /\ tasks.setup = "await"
    /\ tasks.callback = "pending"
    /\ tasks' = [tasks EXCEPT !.setup = "threw", !.callback = "none"]
    /\ UNCHANGED <<ml5lib, thisTracker, trace>>
    /\ TrackerRest

\* a detection timer fires and calls detectFaceLoop()
TimerFires ==
    /\ tasks.timers > 0
    /\ Took(detectFaceLoop(thisTracker, [tasks EXCEPT !.timers = @ - 1]))
    /\ UNCHANGED ml5lib
    /\ TrackerRest

\* the prediction detectFaceLoop() awaits settles: the results are processed
\* and the finally block runs
PredictionSettles ==
    /\ tasks.running > 0
    /\ \E outcome \in PredictionOutcomes :
           Took(LoopFinally(
                  [thisTracker EXCEPT !.keypoints = KeypointsAfter(thisTracker, outcome)],
                  [tasks EXCEPT !.running = @ - 1]))
    /\ UNCHANGED ml5lib
    /\ TrackerRest

\* safePredict()'s 2000 ms timer wins the race: safePredict() returns null,
\* dummy landmarks are made and the finally block runs, while predict() is
\* still in flight
PredictTimeout ==
    /\ tasks.running > 0
    /\ UsesSafePredict(thisTracker)
    /\ tasks.orphaned < MaxOrphans
    /\ Took(LoopFinally([thisTracker EXCEPT !.keypoints = "dummy"],
                        [tasks EXCEPT !.running = @ - 1, !.orphaned = @ + 1]))
    /\ UNCHANGED ml5lib
    /\ TrackerRest

\* a predict() that lost the race settles; nothing awaits it
OrphanSettles ==
    /\ tasks.orphaned > 0
    /\ tasks' = [tasks EXCEPT !.orphaned = @ - 1]
    /\ UNCHANGED <<ml5lib, thisTracker, trace>>
    /\ TrackerRest

\* the model emits a detection to the handler setup() bound
FaceEvent ==
    /\ thisTracker.eventBound
    /\ tasks.callback = "fired"
    /\ ~trace.disposed
    /\ \E outcome \in {"face", "noface"} :
           /\ Processed(outcome) # thisTracker.keypoints
           /\ thisTracker' = IF ~thisTracker.isProcessing
                             THEN [thisTracker EXCEPT !.keypoints = Processed(outcome)]
                             ELSE thisTracker
    /\ UNCHANGED <<ml5lib, tasks, trace>>
    /\ TrackerRest

\* dispose(), called by resetSketch()
Dispose ==
    /\ tasks.setup # "new"
    /\ ~trace.disposed
    /\ thisTracker' = [thisTracker EXCEPT !.isReady = FALSE,
                                          !.usePollingForDetection = FALSE]
    /\ trace' = [trace EXCEPT !.disposed = TRUE]
    /\ UNCHANGED <<ml5lib, tasks>>
    /\ TrackerRest

TrackerNext ==
    \/ Setup
    \/ ModelLoadedCallback
    \/ SetupContinues
    \/ SetupThrows
    \/ TimerFires
    \/ PredictionSettles
    \/ PredictTimeout
    \/ OrphanSettles
    \/ FaceEvent
    \/ Dispose

TrackerSpec == TrackerInit /\ [][TrackerNext]_vars

\* the event loop runs every callback, timer and promise that is due
TrackerLiveSpec ==
    /\ TrackerInit
    /\ [][TrackerNext]_vars
    /\ WF_vars(ModelLoadedCallback)
    /\ WF_vars(SetupContinues \/ SetupThrows)
    /\ WF_vars(TimerFires)
    /\ WF_vars(PredictionSettles \/ PredictTimeout)
    /\ WF_vars(OrphanSettles)

----------------------------------------------------------------------------
(* The page: app.js's click handlers and error display, p5's call of       *)
(* setup() with checkMl5Features(), and the promises of the setup() calls   *)
(* that setupSketch() started.                                              *)

MaxPending == 2

MaxHideTimers == 2

\* the page's state as one value: the document, app.js and sketch.js, and the
\* count of events
Page(d, a, e) == [ dom |-> d, app |-> a, events |-> e ]

\* showError(message)
showError(d, message) ==
    [ d EXCEPT !.errorText = message, !.errorDisplay = "flex", !.hideTimers = @ + 1 ]

\* the two messages handleFaceTrackingError() chooses between
FaceTrackingMessage(fallbackActive) == IF fallbackActive THEN "fallback" ELSE "failed"

\* handleFaceTrackingError() without its hasShownFaceTrackingError guard
handleFaceTrackingErrorUnguarded(s, fallbackActive) ==
    [ s EXCEPT !.dom = showError(@, FaceTrackingMessage(fallbackActive)),
               !.app.hasShownFaceTrackingError = TRUE,
               !.events.received = @ + 1,
               !.events.shown = @ + 1 ]

\* handleFaceTrackingError(event)
handleFaceTrackingError(s, fallbackActive) ==
    IF ~s.app.hasShownFaceTrackingError
    THEN [ s EXCEPT !.dom = showError(@, FaceTrackingMessage(fallbackActive)),
                    !.app.hasShownFaceTrackingError = TRUE,
                    !.events.received = @ + 1,
                    !.events.shown = @ + 1 ]
    ELSE [ s EXCEPT !.events.received = @ + 1 ]

\* emitFaceTrackingError(message, fallbackActive): window.dispatchEvent() runs
\* the listeners registered at that moment
emitFaceTrackingError(s, fallbackActive) ==
    LET sent == [s EXCEPT !.events.emitted = @ + 1]
    IN  IF s.app.listening THEN handleFaceTrackingError(sent, fallbackActive)
        ELSE sent

\* the class changes of resetExperience() with the reset button left shown
ShowIntroKeepButton(d) == [d EXCEPT !.experience = FALSE, !.intro = TRUE]

\* the class changes of startExperience()
ShowExperience(d) ==
    [d EXCEPT !.intro = FALSE, !.experience = TRUE, !.resetHidden = FALSE]

\* the class changes of resetExperience()
ShowIntro(d) ==
    [d EXCEPT !.experience = FALSE, !.intro = TRUE, !.resetHidden = TRUE]

\* the last two clicks, the newest last
Clicked(a, button) ==
    [a EXCEPT !.clicks = IF Len(@) < 2 THEN Append(@, button) ELSE << @[2], button >>]

Shown(s) ==
    /\ dom' = s.dom
    /\ app' = s.app
    /\ events' = s.events

AppRest ==
    /\ UNCHANGED <<particles, attractors, nextId>>
    /\ UNCHANGED loopVars
    /\ UNCHANGED <<faceTracker, trackers, frames, attractorsFrom, lastFrame>>
    /\ UNCHANGED <<ml5lib, thisTracker, tasks, trace>>

AppInit ==
    /\ particles = <<>>
    /\ attractors = <<>>
    /\ nextId = 1
    /\ LoopIdle
    /\ SketchStart
    /\ \E names \in Ml5Choices :
           ml5lib = [version |-> "0.12.2", apis |-> names, on |-> "binds"]
    /\ thisTracker = NewTracker
    /\ tasks = NoTasks
    /\ trace = NoTrace
    /\ dom = PageLoaded
    /\ app = AppLoaded
    /\ events = NoEvents

\* p5 calls setup(): the canvas is made and hidden, checkMl5Features() runs
P5Setup ==
    /\ app.canvas = "undefined"
    /\ LET made == Page(dom, [app EXCEPT !.canvas = "none"], events)
       IN  IF HasFaceApi(ml5lib.apis)
           THEN /\ Shown(made)
                /\ UNCHANGED <<isFaceTrackingAvailable, wentUnavailable>>
           ELSE /\ Shown(emitFaceTrackingError(made, TRUE))
                /\ isFaceTrackingAvailable' = FALSE
                /\ wentUnavailable' = TRUE
    /\ UNCHANGED ui
    /\ AppRest

\* startExperience(): the classes, then initializeSketch(), which calls
\* setupSketch() and then registers the faceTrackingError listener;
\* setupSketch() throws on the canvas when p5 has not called setup() yet
StartExperience ==
    /\ LET d == ShowExperience(dom)
           a == Clicked(app, "start")
       IN  IF app.canvas = "undefined"
           THEN /\ dom.hideTimers < MaxHideTimers
                /\ Shown(Page(showError(d, "startup"), a, events))
           ELSE /\ isFaceTrackingAvailable => app.pending < MaxPending
                /\ Shown(Page(d, [a EXCEPT !.canvas = "block",
                                           !.listening = TRUE,
                                           !.pending = IF isFaceTrackingAvailable
                                                       THEN @ + 1 ELSE @],
                              events))
    /\ ui' = "experience"
    /\ UNCHANGED <<isFaceTrackingAvailable, wentUnavailable>>
    /\ AppRest

\* resetExperience(): resetSketch() in a try block, then the classes; the
\* setup() calls already started stay pending
ResetExperience ==
    /\ LET a == Clicked(app, "reset")
       IN  IF app.canvas = "undefined"
           THEN /\ dom.hideTimers < MaxHideTimers
                /\ Shown(Page(ShowIntro(showError(dom, "reset")), a, events))
           ELSE Shown(Page(ShowIntro(dom), [a EXCEPT !.canvas = "none"], events))
    /\ ui' = "intro"
    /\ UNCHANGED <<isFaceTrackingAvailable, wentUnavailable>>
    /\ AppRest

\* a setup() call rejects: the catch handler of setupSketch() clears the
\* flag and emits the event
SetupRejected ==
    /\ app.pending > 0
    /\ Shown(emitFaceTrackingError(
               Page(dom, [app EXCEPT !.pending = @ - 1], events), TRUE))
    /\ isFaceTrackingAvailable' = FALSE
    /\ wentUnavailable' = TRUE
    /\ UNCHANGED ui
    /\ AppRest

\* a setup() call resolves
SetupResolved ==
    /\ app.pending > 0
    /\ app' = [app EXCEPT !.pending = @ - 1]
    /\ UNCHANGED <<dom, events, ui, isFaceTrackingAvailable, wentUnavailable>>
    /\ AppRest

\* the 5000 ms timer of a showError() call hides the error box
HideError ==
    /\ dom.hideTimers > 0
    /\ dom' = [dom EXCEPT !.errorDisplay = "none", !.hideTimers = @ - 1]
    /\ UNCHANGED <<app, events, ui, isFaceTrackingAvailable, wentUnavailable>>
    /\ AppRest

AppNext ==
    \/ P5Setup
    \/ StartExperience
    \/ ResetExperience
    \/ SetupRejected
    \/ SetupResolved
    \/ HideError

AppSpec == AppInit /\ [][AppNext]_vars

----------------------------------------------------------------------------
(* Properties *)

\* an update() call has returned
Done == pc = "idle" /\ ticks > 0

Entries == { processed[k] : k \in 1..Len(processed) }

Population == { particles[k] : k \in 1..Len(particles) }

Deaths == Cardinality({ k \in 1..Len(processed) : processed[k].dead })

\* exact test of |a - b| < r for a range r below Far
Within(a, b, r) == ~IsFar(Sub(a, b)) /\ MagSq(Sub(a, b)) < r * r

\* C1 as stated: after every completed update() the population has exactly
\* maxParticles particles, however many died during the call.
C1_FullAfterUpdate == Done => Len(particles) = maxParticles

\* C1 amended: after every completed update() the population has maxParticles
\* particles minus the number that died during that call; it is full right
\* after the refill at the start of the call.
C1_FullMinusDeaths ==
    /\ Done => Len(particles) = maxParticles - Deaths
    /\ (pc = "loop" /\ processed = <<>>) => Len(particles) = maxParticles

C1_Witness == Done /\ Deaths > 0 /\ Len(particles) = maxParticles - Deaths

\* C2: the velocity of every particle, freshly constructed or updated, has
\* magnitude at most maxSpeed.
C2_SpeedBound ==
    /\ \A p \in Population : MagSq(p.velocity) <= p.maxSpeed * p.maxSpeed
    /\ \A e \in Entries : MagSq(e.after.velocity) <= e.after.maxSpeed * e.after.maxSpeed

\* a particle whose velocity plus acceleration exceeded maxSpeed was updated
C2_Witness ==
    \E e \in Entries :
        /\ MagSq(Add(e.mid.velocity, e.mid.acceleration)) > e.mid.maxSpeed * e.mid.maxSpeed
        /\ MagSq(e.after.velocity) <= e.after.maxSpeed * e.after.maxSpeed

\* C3 as stated: every vector returned by seek (with the strengths update()
\* passes), separate, align, cohesion and borders has magnitude <= maxForce.
C3_ForceBound ==
    \A e \in Entries :
        LET m == e.before.maxForce * e.before.maxForce
        IN  /\ MagSq(e.sep) <= m /\ MagSq(e.ali) <= m
            /\ MagSq(e.coh) <= m /\ MagSq(e.bor) <= m
            /\ MagSq(e.attraction) <= m

\* C3 amended: separate, align, cohesion and borders return a vector of
\* magnitude <= maxForce; seek returns one of magnitude <= maxForce * strength,
\* which in update() is at most 2.5 * maxForce.
C3_ForceBoundScaled ==
    \A e \in Entries :
        LET m == e.before.maxForce * e.before.maxForce
        IN  /\ MagSq(e.sep) <= m /\ MagSq(e.ali) <= m
            /\ MagSq(e.coh) <= m /\ MagSq(e.bor) <= m
            /\ MagSq(e.attraction) * Unit * Unit <= m * e.strength * e.strength
            /\ e.strength <= 250

\* seek was called with a strength above 1 and returned more than maxForce,
\* and the behaviours returned non-zero forces
C3_Witness ==
    /\ \E e \in Entries :
          /\ e.hit /\ e.strength > Unit
          /\ MagSq(e.attraction) > e.before.maxForce * e.before.maxForce
    /\ \E e \in Entries : e.sep # Zero /\ e.ali # Zero /\ e.coh # Zero
    /\ \E e \in Entries : e.bor # Zero

\* C4: after every update() call no particle left in the population is dead.
C4_NoDeadAfterUpdate == pc = "idle" => \A p \in Population : ~isDead(p)

\* a particle died during the call and is gone from the population
C4_Witness ==
    /\ Done
    /\ \E e \in Entries : e.dead /\ e.after.lifespan <= 0 /\ e.before.lifespan > 0
                          /\ \A p \in Population : p.id # e.id

\* C5: the lifespan of every particle is at most 255.
C5_LifespanCap ==
    /\ \A p \in Population : p.lifespan <= 255 * Unit
    /\ \A e \in Entries : e.after.lifespan <= 255 * Unit

\* an attracted particle whose lifespan plus twice its decay exceeds 255
C5_Witness ==
    \E e \in Entries :
        /\ e.mid.isAttracted
        /\ e.mid.lifespan + 2 * e.mid.decay > 255 * Unit
        /\ e.after.lifespan = 255 * Unit

\* some attractor of the list lies at distance < 150 from pos
InRange(pos, atts) == \E k \in 1..Len(atts) : Within(atts[k], pos, 150 * Unit)

\* C6: a processed particle is attracted exactly when some attractor of the
\* list lay at distance < 150 from its position; otherwise no attraction force
\* was added to its acceleration.  The particles left in the population carry
\* that flag.
C6_AttractedIffInRange ==
    /\ \A e \in Entries :
          /\ e.after.isAttracted <=> InRange(e.before.position, e.atts)
          /\ ~InRange(e.before.position, e.atts) =>
                 (~e.hit /\ e.mid.acceleration = e.flock /\ e.attraction = Zero)
    /\ Done => \A p \in Population : \E e \in Entries : e.after = p

\* one particle had an attractor at exactly 150 and stayed unattracted, another
\* had one nearer and was attracted
C6_Witness ==
    /\ Done
    /\ \E e \in Entries :
          /\ ~e.after.isAttracted
          /\ \E k \in 1..Len(e.atts) :
                 MagSq(Sub(e.atts[k], e.before.position)) = (150 * Unit) * (150 * Unit)
    /\ \E e \in Entries : e.after.isAttracted

\* desired - velocity of seek(), for a target at distance >= 1
SteerDelta(p, target) ==
    Sub(Mult(Normalize(Sub(target, p.position)), p.maxSpeed), p.velocity)

\* C7 as stated: whenever isAttracted is set, the attraction force added to
\* acceleration in that tick is non-zero.
C7_AttractedForceNonZero ==
    \A e \in Entries : e.after.isAttracted => e.attraction # Zero

\* C7 amended: isAttracted is true after a tick exactly when an attractor was
\* found within range and seek's result toward it was added to acceleration;
\* that result is the zero vector when the attractor is at distance < 1, and
\* non-zero when it is at distance >= 1 and desired - velocity is longer than
\* maxForce.
C7_AttractedIffApplied ==
    \A e \in Entries :
        /\ e.after.isAttracted <=> e.hit
        /\ e.mid.acceleration = Add(e.flock, e.attraction)
        /\ e.hit => /\ e.dist < 150 * Unit
                    /\ e.attraction = seek(e.before, e.atts[e.att], e.strength)
        /\ (e.hit /\ e.dist < Unit) => e.attraction = Zero
        /\ (e.hit /\ e.dist >= Unit
              /\ MagSq(SteerDelta(e.before, e.atts[e.att]))
                     > e.before.maxForce * e.before.maxForce)
               => e.attraction # Zero

\* a particle was flagged attracted with a zero force, another with a real one
C7_Witness ==
    /\ \E e \in Entries : e.after.isAttracted /\ e.attraction = Zero /\ e.dist < Unit
    /\ \E e \in Entries : e.after.isAttracted /\ e.dist >= Unit /\ e.attraction # Zero

\* C8: update() with an empty attractor list leaves isAttracted false on every
\* particle, also on those attracted in the previous tick, and adds no
\* attraction force.
C8_EmptyAttractors ==
    /\ \A e \in Entries :
          e.atts = <<>> => /\ ~e.after.isAttracted
                           /\ ~e.hit
                           /\ e.attraction = Zero
                           /\ e.mid.acceleration = e.flock
    /\ (Done /\ attractors = <<>> /\ \A e \in Entries : e.atts = <<>>)
           => \A p \in Population : ~p.isAttracted

\* an update() with no attractors processed a particle attracted the tick before
C8_Witness ==
    /\ Done
    /\ \A e \in Entries : e.atts = <<>>
    /\ \E e \in Entries : e.id \in prevAttracted /\ e.before.isAttracted
                          /\ ~e.after.isAttracted
    /\ \E p \in Population : p.id \in prevAttracted /\ ~p.isAttracted

\* targets at distance < 1 from pos, and the strengths tried
NearTargets(pos) ==
    { Add(pos, d) : d \in { Zero, Vec(99, 0), Vec(-70, 70), Vec(0, -99) } }

Strengths == { 50, Unit, 250 }

\* C9: seek returns the zero vector for every target at distance < 1, for
\* every strength and velocity, and the particle's position, velocity and
\* acceleration are what they were before the call.
C9_SeekDegenerate ==
    /\ \A p \in Population : \A t \in NearTargets(p.position) : \A s \in Strengths :
          seek(p, t, s) = Zero
    /\ \A e \in Entries :
          (e.hit /\ e.dist < Unit) =>
              /\ e.attraction = Zero
              /\ e.mid.position = e.before.position
              /\ e.mid.velocity = e.before.velocity
              /\ e.mid.acceleration = e.flock

\* update() called seek on a moving particle with a target at its own position
C9_Witness ==
    \E e \in Entries :
        /\ e.hit /\ e.atts[e.att] = e.before.position
        /\ e.before.velocity # Zero
        /\ e.attraction = Zero

\* C10: near the left edge and moving left, borders returns a force with a
\* positive x; near the right edge and moving right, one with a negative x.
C10_BordersPushBack ==
    \A p \in Population \cup { e.before : e \in Entries } :
        /\ (p.position.x < 50 * Unit /\ p.velocity.x < 0)
               => borders(p, width, height).x > 0
        /\ (p.position.x > width - 50 * Unit /\ p.velocity.x > 0)
               => borders(p, width, height).x < 0

\* update() applied borders to such a particle at each edge
C10_Witness ==
    /\ \E e \in Entries : /\ e.before.position.x < 50 * Unit
                          /\ e.before.velocity.x < 0 /\ e.bor.x > 0
    /\ \E e \in Entries : /\ e.before.position.x > width - 50 * Unit
                          /\ e.before.velocity.x > 0 /\ e.bor.x < 0

\* the particle is in the buffer of an x-edge, of a y-edge
NearXEdge(p) == p.position.x < 50 * Unit \/ p.position.x > width - 50 * Unit

NearYEdge(p) == p.position.y < 50 * Unit \/ p.position.y > height - 50 * Unit

\* the x-edge correction alone: x is maxSpeed toward the interior, y is the
\* current velocity.y
XEdgeDesired(p) ==
    Vec(IF p.position.x < 50 * Unit THEN p.maxSpeed ELSE -p.maxSpeed, p.velocity.y)

\* what a y-edge correction would have been
YEdgeDesired(p) ==
    Vec(p.velocity.x, IF p.position.y < 50 * Unit THEN p.maxSpeed ELSE -p.maxSpeed)

Corner(e) == NearXEdge(e.before) /\ NearYEdge(e.before)

\* C11: for a particle in the buffer of both an x-edge and a y-edge, borders()
\* steers by the x-edge correction alone (x = maxSpeed toward the interior,
\* y = the current velocity.y); the y-edge correction is not used.
C11_CornerXEdgeOnly ==
    \A e \in Entries : Corner(e) =>
        /\ BordersDesired(e.before, width, height) = << XEdgeDesired(e.before) >>
        /\ e.bor = Limit(Sub(Mult(Normalize(XEdgeDesired(e.before)), e.before.maxSpeed),
                             e.before.velocity), e.before.maxForce)

\* a particle was processed in a corner where the two corrections differ and
\* would have produced different forces
C11_Witness ==
    \E e \in Entries :
        /\ Corner(e)
        /\ XEdgeDesired(e.before) # YEdgeDesired(e.before)
        /\ e.bor # Limit(Sub(Mult(Normalize(YEdgeDesired(e.before)), e.before.maxSpeed),
                             e.before.velocity), e.before.maxForce)

\* C12: the attractor update() seeks is one of minimum distance among those at
\* distance below 150, and among several at that minimum distance the first
\* in list order; when none is below 150 no attractor is sought.
C12_ClosestFirstWins ==
    \A e \in Entries :
        LET D(k) == Dist(e.before.position, e.atts[k])
            Idx  == 1..Len(e.atts)
        IN  IF e.hit
            THEN /\ e.att \in Idx
                 /\ e.dist = D(e.att)
                 /\ D(e.att) < 150 * Unit
                 /\ \A k \in Idx : D(k) >= D(e.att)
                 /\ \A k \in Idx : k < e.att => D(k) > D(e.att)
                 /\ e.attraction = seek(e.before, e.atts[e.att], e.strength)
            ELSE /\ \A k \in Idx : D(k) >= 150 * Unit
                 /\ e.attraction = Zero

\* a particle exactly as far from two different attractors, both the closest,
\* sought the earlier one, and the later one would have given another force
C12_Witness ==
    \E e \in Entries :
        /\ e.hit
        /\ \E k \in 1..Len(e.atts) :
               /\ k > e.att
               /\ e.atts[k] # e.atts[e.att]
               /\ ~IsFar(Sub(e.before.position, e.atts[k]))
               /\ MagSq(Sub(e.before.position, e.atts[k]))
                      = MagSq(Sub(e.before.position, e.atts[e.att]))
               /\ seek(e.before, e.atts[k], e.strength) # e.attraction

Ids(ps) == { ps[k].id : k \in 1..Len(ps) }

\* a particle as its constructor leaves it
Fresh(p) == p.lifespan = 255 * Unit /\ ~p.isAttracted /\ p.acceleration = Zero

\* the step is the start of an update() call: the refill and the loop header
RefillStep == pc = "idle" /\ ticks' = ticks + 1

\* C13: a particle removed during an update() call is not replaced within
\* that call: the loop adds no particle, and the call that k particles died
\* in returns with maxParticles - k; the next call appends exactly those k
\* replacements, new particles at the end of the list, before it processes
\* any particle.
C13_RefillNextCall ==
    [][ /\ pc = "loop" =>
            /\ Ids(particles') \subseteq Ids(particles)
            /\ Len(particles') \in {Len(particles), Len(particles) - 1}
            /\ nextId' = nextId
        /\ (pc = "loop" /\ pc' = "idle") =>
            Len(particles') = maxParticles - Deaths'
        /\ RefillStep =>
            /\ Len(particles') = Len(particles) + Deaths
            /\ Len(particles') = maxParticles
            /\ SubSeq(particles', 1, Len(particles)) = particles
            /\ \A k \in (Len(particles) + 1)..Len(particles') :
                   Fresh(particles'[k]) /\ particles'[k].id \notin Ids(particles)
            /\ processed' = <<>>
      ]_vars

\* a call has just refilled the population after a call in which particles
\* died, and has processed nothing yet
C13_Witness ==
    /\ pc = "loop" /\ processed = <<>>
    /\ graveyard # {}
    /\ Len(particles) = maxParticles
    /\ particles[Len(particles)].id = nextId - 1
    /\ nextId - 1 > maxParticles
    /\ Fresh(particles[Len(particles)])

\* C14: whenever an update() call starts, and whenever the loop reaches a
\* particle, the particle's acceleration is zero: Particle.update() adds the
\* accumulated acceleration to the velocity and then resets it, so no force
\* is carried from one tick to the next.
C14_AccelerationReset ==
    /\ \A p \in Population : p.acceleration = Zero
    /\ \A e \in Entries :
           /\ e.before.acceleration = Zero
           /\ e.after.acceleration = Zero
           /\ e.mid.acceleration = Add(e.flock, e.attraction)
           /\ e.after.velocity =
                  Limit(Add(e.before.velocity, e.mid.acceleration), e.before.maxSpeed)

\* a call has returned in which a particle accumulated a force and survived:
\* the next call starts with its acceleration zero
C14_Witness ==
    /\ Done
    /\ \E e \in Entries :
           /\ e.mid.acceleration # Zero
           /\ ~e.dead
           /\ \E p \in Population : p.id = e.id /\ p.acceleration = Zero

\* C15 as stated: once face tracking is unavailable (no face API found, or a
\* setup() rejected) isFaceTrackingAvailable is false from then on, and every
\* draw() frame from then on updates the particle system with a non-empty
\* list built by the fallback generator, not with tracker keypoints.
C15_FallbackSynthetic ==
    /\ wentUnavailable => ~isFaceTrackingAvailable
    /\ lastFrame.unavailable =>
           /\ lastFrame.mode = "fallback"
           /\ lastFrame.attractors # <<>>
           /\ lastFrame.from = "fallback"

\* the lifespan Particle.update() leaves, from the lifespan before and the flag
LifespanRule(lifespan, decay, isAttracted) ==
    IF ~isAttracted THEN lifespan - decay
    ELSE IF lifespan + 2 * decay > 255 * Unit THEN 255 * Unit
    ELSE lifespan + 2 * decay

\* C16: Particle.update() lowers the lifespan of a particle that is not
\* attracted by exactly decay and sets the lifespan of an attracted one to
\* min(255, lifespan + 2 * decay); nothing else changes a lifespan: not the
\* forces, not the attraction block, not a step that processes another
\* particle.
C16_LifespanRule ==
    [][ /\ \A k \in 1..Len(particles) : \A j \in 1..Len(particles') :
               particles[k].id = particles'[j].id =>
                   IF pc = "loop" /\ k = idx + 1
                   THEN particles'[j].lifespan =
                            LifespanRule(particles[k].lifespan, particles[k].decay,
                                         particles'[j].isAttracted)
                   ELSE particles'[j].lifespan = particles[k].lifespan
        /\ \A e \in Entries' :
               /\ e.mid.lifespan = e.before.lifespan
               /\ e.after.lifespan =
                      LifespanRule(e.before.lifespan, e.before.decay, e.mid.isAttracted)
      ]_vars

\* an update() call in which one particle aged by its decay and another, below
\* the cap, regenerated by twice its decay
C16_Witness ==
    /\ \E e \in Entries :
           ~e.mid.isAttracted /\ e.after.lifespan = e.before.lifespan - e.before.decay
    /\ \E e \in Entries :
           /\ e.mid.isAttracted
           /\ e.after.lifespan = e.before.lifespan + 2 * e.before.decay
           /\ e.after.lifespan < 255 * Unit

\* distances the strength is probed at, in fixed point: 0, just above 0, the
\* middle of the range, and just below 150
ProbeDistances == { 0, Unit, 50 * Unit, 75 * Unit, 76 * Unit, 149 * Unit, 150 * Unit - 1 }

\* C17: the strength passed to seek is the linear map of the closest distance
\* from [0, 150] onto [2.5, 0.5]: 2.5 at distance 0, inside (0.5, 2.5] for
\* every distance d with 0 <= d < 150, and strictly smaller at a larger
\* distance (for distances a whole unit or more apart; the fixed-point
\* strength has a resolution of 0.01, which is 0.75 units of distance).  The
\* line is strength = 2.5 - 2 * d / 150, which in fixed point is
\* 75 * strength = 75 * 250 - d up to the rounding of one hundredth.
C17_StrengthMap ==
    /\ Strength(0) = 250
    /\ \A d \in ProbeDistances :
           /\ Strength(d) > 50 /\ Strength(d) <= 250
           /\ 75 * Strength(d) - (75 * 250 - d) \in 0..74
           /\ \A d2 \in ProbeDistances : d2 >= d + Unit => Strength(d2) < Strength(d)
    /\ \A e \in Entries : e.hit =>
           /\ e.dist >= 0 /\ e.dist < 150 * Unit
           /\ e.strength > 50 /\ e.strength <= 250
           /\ 75 * e.strength - (75 * 250 - e.dist) \in 0..74
           /\ \A o \in Entries :
                  (o.hit /\ o.dist >= e.dist + Unit) => o.strength < e.strength

\* one update() call attracted two particles from distances more than a unit
\* apart, one of them from distance 0
C17_Witness ==
    \E e \in Entries : \E o \in Entries :
        /\ e.hit /\ o.hit
        /\ e.dist = 0 /\ e.strength = 250
        /\ o.dist >= e.dist + Unit /\ o.strength < e.strength

\* the ids of the entries of processed, in the order they were processed
ProcessedIds == [k \in 1..Len(processed) |-> processed[k].id]

\* C18: in one update() call every particle of the population the loop
\* started with (after the refill) is processed exactly once, in reverse
\* index order, whether or not particles processed before it were removed:
\* none is skipped and none is processed twice.
C18_EachProcessedOnce ==
    /\ pc = "loop" =>
           /\ Len(processed) = Len(started) - (idx + 1)
           /\ idx + 1 <= Len(particles)
           /\ particles[idx + 1] = started[idx + 1]
    /\ (Done \/ pc = "loop") =>
           /\ \A k \in 1..Len(processed) :
                  /\ processed[k].id = started[Len(started) + 1 - k].id
                  /\ processed[k].before = started[Len(started) + 1 - k]
           /\ \A k \in 1..Len(processed) : \A j \in 1..Len(processed) :
                  processed[k].id = processed[j].id => k = j
    /\ Done => Len(processed) = Len(started)

\* a call has returned in which a particle died and was removed and a
\* particle below it in the list was processed afterwards
C18_Witness ==
    /\ Done
    /\ Len(started) = maxParticles
    /\ \E k \in 1..Len(processed) : \E j \in 1..Len(processed) :
           k < j /\ processed[k].dead /\ ~processed[j].dead

\* the loop body applied in forward index order with safe removal: the index
\* stays where it is after a removal
RECURSIVE ForwardLoop(_, _, _)
ForwardLoop(ps, atts, i) ==
    IF i > Len(ps) THEN ps
    ELSE LET r == ProcessParticle(ps, atts, i)
         IN  ForwardLoop(r.particles, atts, IF r.entry.dead THEN i ELSE i + 1)

\* the attractor list the returned call used
UsedAttractors == IF processed = <<>> THEN attractors ELSE processed[1].atts

\* no two particles of the list can be, or become during one pass, neighbours
\* of each other: every two are at least 50 + 2 * maxSpeed = 58 apart
FarApart(ps) ==
    \A k \in 1..Len(ps) : \A j \in 1..Len(ps) :
        k # j => ~Within(ps[k].position, ps[j].position, 58 * Unit)

\* C19 as stated: the population update() leaves is the one the reverse loop
\* computes, and a forward pass with safe removal over the same starting
\* population leaves the same population.
C19_OrderIndependent ==
    Done =>
        /\ particles = UpdateLoop(started, UsedAttractors, Len(started))
        /\ particles = ForwardLoop(started, UsedAttractors, 1)

\* C19 amended: the forward pass leaves the same population as the reverse
\* pass when no two particles are within 58 units (the neighbour range 50
\* plus twice maxSpeed) of each other when the pass starts; particles in
\* neighbour range read each other's already-updated position and velocity,
\* so for them the result depends on the order.
C19_OrderIndependentApart ==
    Done =>
        /\ particles = UpdateLoop(started, UsedAttractors, Len(started))
        /\ FarApart(started) => particles = ForwardLoop(started, UsedAttractors, 1)

\* a call over particles far apart has returned, in which a particle died and
\* another was attracted
C19_Witness ==
    /\ Done
    /\ Len(started) = maxParticles
    /\ FarApart(started)
    /\ \E e \in Entries : e.dead
    /\ \E e \in Entries : e.mid.acceleration # Zero
    /\ particles = ForwardLoop(started, UsedAttractors, 1)

\* C20: dead is terminal.  A particle whose lifespan reached 0 or below was
\* removed in the step that updated it: it is in the population of no later
\* state and is processed by no later step; nothing gives it lifespan back.
\* The population is refilled only at the start of a later update() call,
\* and only with newly constructed particles (lifespan 255, isAttracted
\* false, zero acceleration) that never lived before.
C20_DeadIsTerminal ==
    [][ /\ \A p \in Population' : p.id \notin graveyard' /\ ~isDead(p)
        /\ \A e \in Entries' : e.dead =>
               /\ isDead(e.after)
               /\ e.id \in graveyard'
               /\ e.before.lifespan > 0
        /\ pc = "loop" => particles[idx + 1].id \notin graveyard
        /\ graveyard \subseteq graveyard'
        /\ \A p \in Population' :
               p.id \notin Ids(particles) =>
                   /\ RefillStep
                   /\ Fresh(p)
                   /\ p.id >= nextId
                   /\ \A g \in graveyard : p.id > g
      ]_vars

\* a call has refilled the place of a dead particle with a new one and is
\* processing the population, the dead particle not among it
C20_Witness ==
    /\ pc = "loop"
    /\ graveyard # {}
    /\ Len(particles) = maxParticles
    /\ \E p \in Population : Fresh(p) /\ \A g \in graveyard : p.id > g
    /\ \A p \in Population : p.id \notin graveyard

\* some particle of ps is at a distance d from p with 0 < d < range
HasNeighbour(p, ps, range) ==
    \E k \in 1..Len(ps) :
        ps[k].position # p.position /\ Within(p.position, ps[k].position, range)

\* ps without the particles at exactly p's position (p itself among them)
Elsewhere(p, ps) == SelectSeq(ps, LAMBDA o : o.position # p.position)

\* C21: separate, align and cohesion return the zero vector when no other
\* particle is at a distance d with 0 < d < the behaviour's range (25 for
\* separate, 50 for align and cohesion), and the particle itself and every
\* particle at exactly its position count for nothing: what each behaviour
\* returns for the particle update() processes is what it returns over the
\* list without them.
C21_ZeroWithoutNeighbours ==
    [][ pc = "loop" =>
            LET p == particles[idx + 1]
                e == processed'[Len(processed')]
                others == Elsewhere(p, particles)
            IN  /\ e.before = p
                /\ ~HasNeighbour(p, particles, 50 * Unit) =>
                       e.ali = Zero /\ e.coh = Zero
                /\ ~HasNeighbour(p, particles, 25 * Unit) => e.sep = Zero
                /\ e.sep = separate(p, others)
                /\ e.ali = align(p, others)
                /\ e.coh = cohesion(p, others)
      ]_vars

\* update() processed a moving particle that had another particle at exactly
\* its position and none in range, and its three behaviours returned zero
C21_Witness ==
    /\ processed # <<>>
    /\ LET e == processed[1]
       IN  /\ \E k \in 1..Len(started) :
                  started[k].id # e.id /\ started[k].position = e.before.position
           /\ ~HasNeighbour(e.before, started, 50 * Unit)
           /\ e.before.velocity # Zero
           /\ e.sep = Zero /\ e.ali = Zero /\ e.coh = Zero

\* the fields the constructor sets and nothing assigns afterwards
Constants(p) == << p.maxSpeed, p.maxForce, p.size, p.color, p.decay >>

\* C22: maxSpeed, maxForce, size, color and decay of a particle never change
\* after construction; computing the behaviours changes no position,
\* velocity or lifespan: when the forces have been computed and applied the
\* particle differs from before only in its acceleration, which is the sum
\* of the returned forces times update()'s multipliers, and a step that
\* processes one particle leaves every other particle as it was.
C22_BehavioursPure ==
    [][ /\ \A k \in 1..Len(particles) : \A j \in 1..Len(particles') :
               particles[k].id = particles'[j].id =>
                   /\ Constants(particles'[j]) = Constants(particles[k])
                   /\ ~(pc = "loop" /\ k = idx + 1) => particles'[j] = particles[k]
        /\ \A e \in Entries' :
               /\ e.mid = [e.before EXCEPT !.acceleration = Add(e.flock, e.attraction),
                                           !.isAttracted = e.hit]
               /\ e.flock = Add(Add(Add(Mult(e.sep, 150), Mult(e.ali, 100)),
                                    Mult(e.coh, 100)), Mult(e.bor, 150))
               /\ Constants(e.after) = Constants(e.before)
      ]_vars

\* a particle with a neighbour got a separation, an alignment and a cohesion
\* force, and the neighbour is in the population as it was
C22_Witness ==
    /\ pc = "loop"
    /\ Len(processed) = 1
    /\ LET e == processed[1]
       IN  /\ e.sep # Zero /\ e.ali # Zero /\ e.coh # Zero
           /\ e.mid.velocity = e.before.velocity
           /\ \E k \in 1..Len(started) :
                  /\ started[k].id # e.id
                  /\ Within(started[k].position, e.before.position, 25 * Unit)
                  /\ started[k] \in Population

\* C23: setAttractors replaces the whole list and touches no particle; within
\* one update() call every particle computes its attraction against the same
\* list, the one handed over when the call began; a detection the tracker
\* stores, between frames or while update() runs, changes neither that list
\* nor any particle.
C23_AttractorSnapshot ==
    [][ /\ attractors' # attractors =>
            /\ pc = "idle"
            /\ attractors' = trackers[faceTracker].keypoints
            /\ SubSeq(particles', 1, Len(particles)) = particles
        /\ trackers' # trackers =>
            /\ attractors' = attractors
            /\ particles' = particles
        /\ \A e \in Entries' : e.atts = lastFrame'.attractors /\ e.atts = attractors'
      ]_vars

\* update() is between two particles, the first was attracted to the list
\* handed over, and the tracker has stored a different list meanwhile
C23_Witness ==
    /\ pc = "loop"
    /\ Len(processed) = 1
    /\ processed[1].hit
    /\ processed[1].atts = attractors
    /\ trackers[faceTracker].keypoints # attractors

\* the particle with this id, as a set: empty when it is not in the population
Alive(id) == { p \in Population : p.id = id }

\* C24: a particle that no update() call has attracted has lost decay per
\* call and is removed by the call that brings its lifespan to 0 or below,
\* which is at most its 510th call (decay is at least 0.5); a particle that
\* every call so far has attracted is at lifespan 255 and has not been
\* removed.
C24_DepleteOrPersist ==
    \A id \in DOMAIN history :
        LET h == history[id]
        IN  /\ h.attracted = 0 =>
                   /\ \A p \in Alive(id) :
                          p.lifespan = 255 * Unit - h.calls * h.decay /\ p.lifespan > 0
                   /\ Alive(id) = {} =>
                          /\ id \in graveyard
                          /\ 255 * Unit - h.calls * h.decay <= 0
                          /\ 255 * Unit - (h.calls - 1) * h.decay > 0
                   /\ h.calls <= 510
            /\ h.attracted = h.calls =>
                   /\ id \notin graveyard
                   /\ \A p \in Alive(id) : p.lifespan = 255 * Unit
                   /\ Alive(id) # {}

\* a particle that no call attracted was removed by the call that brought its
\* lifespan to 0 or below, 172 calls after its construction, while a particle
\* with a smaller decay that no call attracted either is still there
C24_Witness ==
    \E a \in DOMAIN history : \E b \in DOMAIN history :
        /\ history[a].attracted = 0 /\ a \in graveyard /\ Alive(a) = {}
        /\ history[a].calls * history[a].decay >= 255 * Unit
        /\ history[b].attracted = 0 /\ history[b].calls = history[a].calls
        /\ \E p \in Alive(b) : p.lifespan = 255 * Unit - history[b].calls * p.decay

\* the predictions on the face model that have started and not settled
InFlight == tasks.running + tasks.orphaned

\* C25 as stated: the isProcessing flag prevents concurrent detection: at no
\* time are two prediction calls on the face model in flight at once, also
\* after safePredict()'s 2000 ms timeout has fired.
C25_OnePredictionInFlight == InFlight <= 1

\* C28 as stated: after dispose() the tracker stops: it starts no new
\* prediction, schedules no further detection timer and its isReady stays
\* false, whatever was pending when dispose() ran.
C28_DisposedStaysStopped ==
    trace.disposed =>
        /\ ~thisTracker.isReady
        /\ ~trace.startedAfterDispose
        /\ ~trace.scheduledAfterDispose

\* C29 as stated: when setup() has selected polling and the model-loaded
\* callback has set isReady, the tracker eventually runs a prediction (unless
\* it is disposed first), in whichever order the callback and setup()'s first
\* detectFaceLoop() call ran.
C29_PollingStarts ==
    (thisTracker.usePollingForDetection /\ thisTracker.isReady)
        ~> (tasks.running > 0 \/ trace.disposed)

\* C26: the face-tracking error message is shown at most once per page load,
\* over every sequence of faceTrackingError events and start/reset clicks:
\* showError() is called with a face-tracking message at most once, and the
\* events received after it leave the error box to its timers.
C26_ShownAtMostOnce ==
    /\ events.shown <= 1
    /\ events.shown = 1 <=> app.hasShownFaceTrackingError
    /\ events.shown = 0 => dom.errorText \notin {"fallback", "failed"}

\* a second faceTrackingError event was received after the message was shown
C26_Witness ==
    /\ events.shown = 1
    /\ events.received = 2

\* C27 as stated: every faceTrackingError event the sketch emits is received
\* by handleFaceTrackingError(), and once an event has been emitted showError()
\* has been called with the face-tracking message.
C27_EveryEventReceived ==
    /\ events.received = events.emitted
    /\ events.emitted > 0 => events.shown = 1

\* C30: over every sequence of Start and Reset clicks exactly one of the intro
\* and experience sections has the 'active' class, and the reset button is
\* hidden exactly when the intro section is active.
C30_OneSectionActive ==
    /\ dom.intro # dom.experience
    /\ dom.resetHidden <=> dom.intro

\* a Start whose initializeSketch() worked, after a Reset whose resetSketch()
\* threw, shows the experience with its reset button
C30_Witness ==
    /\ app.clicks = << "reset", "start" >>
    /\ dom.errorText = "reset"
    /\ app.canvas = "block"
    /\ dom.experience /\ ~dom.intro /\ ~dom.resetHidden

====
